---- MODULE Spec2Model ----
(***************************************************************************)
(* Model of src/src/lib.rs: fractional identifiers for ordered sequences.  *)
(*                                                                         *)
(*   Id          : one digit, a u16x16 vector with `len` significant lanes *)
(*   CompositeId : a non-empty sequence of Ids (levels)                    *)
(*                                                                         *)
(* The functions of the library are pure; they are operators here, lane    *)
(* by lane as the SIMD code computes them (u16 arithmetic wraps).  Lane j  *)
(* of the source (0..15) is index j+1 of a TLA+ function on 1..Lanes.      *)
(***************************************************************************)
EXTENDS Integers, Sequences, FiniteSets, TLC

Lanes == 16
LaneMod == 65536

\* ----- bounds of the model ------------------------------------------------
MaxValue == 3
MaxValueC == 2
MaxLevels == 2
LevelCap == 4
MaxInserts == 17

VARIABLES max, debug, left, right, result, pc, inserts

vars == <<max, debug, left, right, result, pc, inserts>>

\* ----- u16x16 / m1x16 vector operations -----------------------------------
LaneIdx == 1..Lanes

Splat(v) == [i \in LaneIdx |-> v]

\* MASKS[k] is false in lanes 0..k and true in lanes k+1..15.
MASKS == [k \in 0..(Lanes - 1) |-> [i \in LaneIdx |-> i > k + 1]]

\* mask.select(x, y): x where the mask is true, y where it is false.
Select(mask, x, y) == [i \in LaneIdx |-> IF mask[i] THEN x[i] ELSE y[i]]

VecAdd(x, y) == [i \in LaneIdx |-> (x[i] + y[i]) % LaneMod]

\* Subtraction with its operands exchanged.
VecSub_swapped(x, y) == [i \in LaneIdx |-> (y[i] - x[i] + LaneMod) % LaneMod]

VecSub(x, y) == [i \in LaneIdx |-> (x[i] - y[i] + LaneMod) % LaneMod]

VecDiv(x, d) == [i \in LaneIdx |-> x[i] \div d]

VecGt(x, y) == [i \in LaneIdx |-> x[i] > y[i]]

\* u16x16::partial_cmp: lexicographic, lane 0 most significant.
VecCmp(x, y) ==
  LET diff == {i \in LaneIdx : x[i] # y[i]}
  IN IF diff = {} THEN "Equal"
     ELSE LET k == CHOOSE i \in diff : \A j \in diff : i <= j
          IN IF x[k] < y[k] THEN "Less" ELSE "Greater"

\* ----- Id -------------------------------------------------------------------
Id_new(value) == [entries |-> Splat(value), len |-> 1]

\* entries() handing out the stored lanes without masking them.
Id_entries_unmasked(self) == self.entries

Id_entries(self) == Select(MASKS[self.len - 1], Splat(0), self.entries)

Id_eq(self, other) == \A i \in LaneIdx : Id_entries(self)[i] = Id_entries(other)[i]

Id_cmp(self, other) == VecCmp(Id_entries(self), Id_entries(other))

Id_lt(x, y) == Id_cmp(x, y) = "Less"

\* compute_len returning the last set lane instead of the first.
compute_len_last(mask) ==
  IF \E i \in LaneIdx : mask[i]
  THEN [ok |-> TRUE, val |-> CHOOSE i \in LaneIdx : mask[i] /\ \A j \in (i + 1)..Lanes : ~mask[j]]
  ELSE [ok |-> FALSE]

compute_len(mask) ==
  IF \E i \in LaneIdx : mask[i]
  THEN [ok |-> TRUE, val |-> CHOOSE i \in LaneIdx : mask[i] /\ \A j \in 1..(i - 1) : ~mask[j]]
  ELSE [ok |-> FALSE]

\* The upper operand padded with 0, as the lower one is.
BView_zero(b, mx) == Select(MASKS[b.len - 1], Splat(0), b.entries)

\* The two masked operands of Id::between_with_max (lines 125 and 126).
AView(a) == Select(MASKS[a.len - 1], Splat(0), a.entries)

BView(b, mx) == Select(MASKS[b.len - 1], Splat(mx), b.entries)

Middle(a, b, mx) == VecAdd(AView(a), VecDiv(VecSub(BView(b, mx), AView(a)), 2))

\* st = "Ok" with the new digit, "Err" (Overflow), or "panic" when the
\* debug_assert fires in a build with debug assertions.
Id_between_with_max(a, b, mx, dbg) ==
  IF dbg /\ ~Id_lt(a, b) THEN [st |-> "panic"]
  ELSE LET middle == Middle(a, b, mx)
           length == compute_len(VecGt(middle, AView(a)))
       IN IF length.ok
          THEN [st |-> "Ok", val |-> [entries |-> middle, len |-> length.val]]
          ELSE [st |-> "Err"]

\* ----- CompositeId ----------------------------------------------------------
CompositeId_new(value) == <<Id_new(value)>>

MinOf(m, n) == IF m <= n THEN m ELSE n

\* derive(Ord) on the SmallVec of levels: lexicographic over the levels, a
\* strict prefix being smaller.
CompositeId_cmp(x, y) ==
  LET n == MinOf(Len(x), Len(y))
      diff == {i \in 1..n : Id_cmp(x[i], y[i]) # "Equal"}
  IN IF diff # {}
     THEN Id_cmp(x[CHOOSE i \in diff : \A j \in diff : i <= j],
                 y[CHOOSE i \in diff : \A j \in diff : i <= j])
     ELSE IF Len(x) < Len(y) THEN "Less"
     ELSE IF Len(x) > Len(y) THEN "Greater"
     ELSE "Equal"

CompositeId_lt(x, y) == CompositeId_cmp(x, y) = "Less"

\* a.entries.iter().cloned().chain(iter::repeat(pad)), level i (1-based).
LevelOf(c, i, pad) == IF i <= Len(c) THEN c[i] ELSE Id_new(pad)

\* The loop dropping a's level, instead of copying it, when the digit
\* midpoint overflows.
RECURSIVE ForLoop_drop(_, _, _, _, _, _)
ForLoop_drop(a, b, mx, dbg, i, entries) ==
  IF i > LevelCap THEN [st |-> "running", entries |-> entries]
  ELSE LET x == LevelOf(a, i, 0)
           y == LevelOf(b, i, mx)
       IN IF Id_eq(x, y)
          THEN ForLoop_drop(a, b, mx, dbg, i + 1, Append(entries, x))
          ELSE LET m == Id_between_with_max(x, y, mx, dbg)
               IN IF m.st = "panic" THEN [st |-> "panic", entries |-> entries]
                  ELSE IF m.st = "Ok"
                  THEN [st |-> "Ok", entries |-> Append(entries, m.val)]
                  ELSE ForLoop_drop(a, b, mx, dbg, i + 1, entries)

\* The for loop over the zipped levels.  The loop has no bound in the code;
\* the model follows it for LevelCap levels and reports "running" when it
\* has not stopped by then.
RECURSIVE ForLoop(_, _, _, _, _, _)
ForLoop(a, b, mx, dbg, i, entries) ==
  IF i > LevelCap THEN [st |-> "running", entries |-> entries]
  ELSE LET x == LevelOf(a, i, 0)
           y == LevelOf(b, i, mx)
       IN IF Id_eq(x, y)
          THEN ForLoop(a, b, mx, dbg, i + 1, Append(entries, x))
          ELSE LET m == Id_between_with_max(x, y, mx, dbg)
               IN IF m.st = "panic" THEN [st |-> "panic", entries |-> entries]
                  ELSE IF m.st = "Ok"
                  THEN [st |-> "Ok", entries |-> Append(entries, m.val)]
                  ELSE ForLoop(a, b, mx, dbg, i + 1, Append(entries, x))

CompositeId_between_with_max(a, b, mx, dbg) ==
  IF dbg /\ ~CompositeId_lt(a, b) THEN [st |-> "panic", entries |-> <<>>]
  ELSE ForLoop(a, b, mx, dbg, 1, <<>>)

\* ----- inputs ---------------------------------------------------------------
\* A digit with the significant lanes sig and every other lane equal to junk.
MkId(sig, junk) ==
  [entries |-> [i \in LaneIdx |-> IF i <= Len(sig) THEN sig[i] ELSE junk],
   len |-> Len(sig)]

\* Significant lanes h, f, ..., f, t (n lanes; <<h>> when n = 1).
Shape(h, f, t, n) ==
  [i \in 1..n |-> IF i = 1 THEN h ELSE IF i = n THEN t ELSE f]

DigitLens == {1, 2, 3, Lanes}

\* Digits of the shapes the constructors produce: new(mx), and digits with
\* lanes below mx whose last significant lane is not 0 (new(0) excepted).
DigitInputs(mx) ==
  {Id_new(mx)} \cup
  {MkId(Shape(h, f, t, n), g) :
     h \in 0..(mx - 1), f \in 0..(mx - 1), t \in 1..(mx - 1), n \in DigitLens \ {1},
     g \in {0, mx}} \cup
  {MkId(<<h>>, g) : h \in 0..(mx - 1), g \in {0, mx}}

\* ----- Id::between_with_max on its own --------------------------------------
InitDigit ==
  /\ max \in 1..MaxValue
  /\ debug = TRUE
  /\ left \in DigitInputs(max)
  /\ right \in DigitInputs(max)
  /\ Id_lt(left, right)
  /\ result = [st |-> "none"]
  /\ pc = "call"
  /\ inserts = 0

IdCall ==
  /\ pc = "call"
  /\ result' = Id_between_with_max(left, right, max, debug)
  /\ pc' = "returned"
  /\ UNCHANGED <<max, debug, left, right, inserts>>

SpecDigit == InitDigit /\ [][IdCall]_vars

\* The digits that differ from d only in lanes at index >= d.len.
JunkVariants(d) ==
  {[entries |-> [i \in LaneIdx |-> IF i <= d.len THEN d.entries[i] ELSE g[i]],
    len |-> d.len] : g \in {Splat(LaneMod - 1), [i \in LaneIdx |-> i]}}

DigitOperands ==
  {left, right} \cup (IF pc = "returned" /\ result.st = "Ok" THEN {result.val} ELSE {})

\* C7: lanes at index >= len never influence equality or ordering: a digit
\* and any digit that differs from it only in those lanes compare alike
\* (==, and cmp on either side) against every other digit.
C7_MaskedLanesIgnored ==
  pc = "returned" =>
    \A d1 \in DigitOperands : \A d2 \in JunkVariants(d1) : \A e \in DigitOperands :
      /\ Id_eq(d1, e) = Id_eq(d2, e)
      /\ Id_cmp(d1, e) = Id_cmp(d2, e)
      /\ Id_cmp(e, d1) = Id_cmp(e, d2)

\* A midpoint was stored whose lanes past its length are not 0 (leftover
\* midpoint lanes) and so differ from the masked view.
C7_Witness ==
  /\ pc = "returned" /\ result.st = "Ok"
  /\ result.val.len < Lanes
  /\ \E i \in (result.val.len + 1)..Lanes : result.val.entries[i] # 0
  /\ \E d2 \in JunkVariants(result.val) : d2.entries # result.val.entries

\* C8: the lane-wise midpoint never wraps the 16-bit lane: in every lane
\* b_view >= a_view, and a_view + (b_view - a_view) / 2 fits in 16 bits.
C8_NoLaneWrap ==
  pc = "returned" =>
    \A j \in LaneIdx :
      /\ BView(right, max)[j] >= AView(left)[j]
      /\ AView(left)[j] + ((BView(right, max)[j] - AView(left)[j]) \div 2) < LaneMod
      /\ Middle(left, right, max)[j]
           = AView(left)[j] + ((BView(right, max)[j] - AView(left)[j]) \div 2)

\* Digits with fewer significant lanes than m that share a prefix with the
\* lower bound and end in any lane value of [0, max].
ShorterDigits(a, m) ==
  {MkId([i \in 1..n |-> IF i < n THEN AView(a)[i] ELSE v], 0) :
     n \in 1..(m.len - 1), v \in 0..max}

\* C9 (as stated): an Ok midpoint m has the shortest possible significant
\* length: no digit with lanes in [0, max] and fewer significant lanes lies
\* strictly between a and b.
C9_ShortestAmongAllDigits ==
  (pc = "returned" /\ result.st = "Ok") =>
    \A d \in ShorterDigits(left, result.val) :
      ~(Id_lt(left, d) /\ Id_lt(d, right))

\* C9 (amended): an Ok midpoint m lies strictly between a and b and has the
\* shortest length among the truncations of the lane-wise floor midpoint
\* that are strictly greater than a: every shorter truncation is <= a.
C9_ShortestTruncationOfMiddle ==
  (pc = "returned" /\ result.st = "Ok") =>
    /\ Id_lt(left, result.val)
    /\ Id_lt(result.val, right)
    /\ \A n \in 1..(result.val.len - 1) :
         ~Id_lt(left, [entries |-> result.val.entries, len |-> n])

\* An Ok midpoint with more than one significant lane, where a shorter digit
\* with lanes in [0, max] lies strictly between the operands.
C9_Witness ==
  /\ pc = "returned" /\ result.st = "Ok"
  /\ result.val.len > 1
  /\ \E d \in ShorterDigits(left, result.val) : Id_lt(left, d) /\ Id_lt(d, right)

\* ----- CompositeId::between_with_max on its own ------------------------------
\* Level digits: one significant lane, or all 16 lanes significant.
CDigits(mx) ==
  {Id_new(h) : h \in {0, mx - 1}} \cup
  {MkId(Shape(h, f, t, Lanes), 0) :
     h \in {0, mx - 1}, f \in {0, mx - 1}, t \in {1} \cap (1..(mx - 1))}

\* Identifiers of the shapes the constructors produce: new(mx), and level
\* sequences whose last level is not the zero digit (new(0) excepted).
CompositeInputs(mx) ==
  {CompositeId_new(mx)} \cup
  {c \in UNION {[1..n -> CDigits(mx)] : n \in 1..MaxLevels} :
     Len(c) = 1 \/ ~Id_eq(c[Len(c)], Id_new(0))}

InitComposite ==
  /\ max \in 1..MaxValueC
  /\ debug \in BOOLEAN
  /\ left \in CompositeInputs(max)
  /\ right \in CompositeInputs(max)
  /\ CompositeId_lt(left, right)
  /\ result = [st |-> "none"]
  /\ pc = "call"
  /\ inserts = 0

CompositeCall ==
  /\ pc = "call"
  /\ result' = CompositeId_between_with_max(left, right, max, debug)
  /\ pc' = "returned"
  /\ UNCHANGED <<max, debug, left, right, inserts>>

SpecComposite == InitComposite /\ [][CompositeCall]_vars

\* C1: the call returns an identifier r with a < r and r < b.
C1_ReturnsStrictlyBetween ==
  pc = "returned" =>
    /\ result.st = "Ok"
    /\ CompositeId_lt(left, result.entries)
    /\ CompositeId_lt(result.entries, right)

\* C3: the level-walking loop reaches a pair for which Id::between_with_max
\* returns Ok and stops: it is never still running after it has walked past
\* the levels of both inputs, because the padding pair (new(0), new(max))
\* has a midpoint.
C3_LoopStops ==
  pc = "returned" =>
    /\ result.st # "running"
    /\ Id_between_with_max(Id_new(0), Id_new(max), max, debug).st = "Ok"

\* C4 (as stated): no identifier with fewer levels than the result lies
\* strictly between a and b.
C4_FewestLevels ==
  (pc = "returned" /\ result.st = "Ok") =>
    \A c \in CompositeInputs(max) :
      Len(c) < Len(result.entries) =>
        ~(CompositeId_lt(left, c) /\ CompositeId_lt(c, right))

\* C4 (amended): the result is a's levels (padded with new(0)) up to the
\* first level where the padded levels differ and Id::between_with_max
\* returns Ok, followed by that midpoint: at every earlier level the pair
\* was equal or the digit midpoint overflowed.
C4_StopsAtFirstMidpoint ==
  (pc = "returned" /\ result.st = "Ok") =>
    LET r == result.entries
        n == Len(r)
        x(i) == LevelOf(left, i, 0)
        y(i) == LevelOf(right, i, max)
    IN /\ n >= 1
       /\ \A i \in 1..(n - 1) :
            /\ r[i] = x(i)
            /\ Id_eq(x(i), y(i)) \/ Id_between_with_max(x(i), y(i), max, debug).st = "Err"
       /\ ~Id_eq(x(n), y(n))
       /\ Id_between_with_max(x(n), y(n), max, debug).st = "Ok"
       /\ r[n] = Id_between_with_max(x(n), y(n), max, debug).val

\* A result of two or more levels although an identifier with fewer levels
\* lies strictly between the inputs.
C4_Witness ==
  /\ pc = "returned" /\ result.st = "Ok"
  /\ Len(result.entries) >= 2
  /\ \E c \in CompositeInputs(max) :
       /\ Len(c) < Len(result.entries)
       /\ CompositeId_lt(left, c) /\ CompositeId_lt(c, right)

C5_Low == left = CompositeId_new(0)

\* C5 (as stated): with max = 2, between(new(0), new(2)) is new(1), and
\* between(new(0), new(1)) has two levels, the first the digit 0 and the
\* second a digit strictly between 0 and 2.
C5_ScenarioTwoLevels ==
  (pc = "returned" /\ max = 2 /\ C5_Low) =>
    /\ right = CompositeId_new(2) =>
         /\ result.st = "Ok"
         /\ CompositeId_cmp(result.entries, CompositeId_new(1)) = "Equal"
    /\ right = CompositeId_new(1) =>
         /\ result.st = "Ok"
         /\ Len(result.entries) = 2
         /\ Id_eq(result.entries[1], Id_new(0))
         /\ Id_lt(Id_new(0), result.entries[2])
         /\ Id_lt(result.entries[2], Id_new(2))

\* C5 (amended): with max = 2, between(new(0), new(2)) is new(1), and
\* between(new(0), new(1)) has one level, a digit of two significant lanes
\* 0 and 1.
C5_ScenarioOneLevel ==
  (pc = "returned" /\ max = 2 /\ C5_Low) =>
    /\ right = CompositeId_new(2) =>
         /\ result.st = "Ok"
         /\ CompositeId_cmp(result.entries, CompositeId_new(1)) = "Equal"
    /\ right = CompositeId_new(1) =>
         /\ result.st = "Ok"
         /\ Len(result.entries) = 1
         /\ result.entries[1].len = 2
         /\ Id_entries(result.entries[1]) = [i \in LaneIdx |-> IF i = 2 THEN 1 ELSE 0]

\* between(new(0), new(1), 2) has returned.
C5_Witness ==
  /\ pc = "returned" /\ max = 2
  /\ C5_Low /\ right = CompositeId_new(1)
  /\ result.st = "Ok"

\* C10: every Id::between_with_max the loop invokes gets a_level < b_level:
\* its debug_assert never fires.
C10_LevelPreconditionHolds ==
  pc = "returned" => result.st # "panic"

\* ----- the insertion tests ---------------------------------------------------
\* Both tests keep a list `ids`, pick an interior index, and insert the
\* midpoint of ids[index - 1] and ids[index] there.  The model follows the
\* locals of one iteration: `left` and `right` are the two neighbours picked,
\* `result` the midpoint inserted between them.  The insertion makes
\* (left, middle) and (middle, right) adjacent, so the pairs this walk
\* reaches are the adjacent pairs of the lists the test can build.
COMPOSITE_MAX_VALUE == 2

PrimitiveMaxValues == {2, 4}

\* ids == sorted_ids after ids.sort(): no element is greater than its
\* successor.
IsSortedComposite(ids) ==
  \A i \in 1..(Len(ids) - 1) : CompositeId_cmp(ids[i], ids[i + 1]) # "Greater"

IsSortedPrimitive(ids) ==
  \A i \in 1..(Len(ids) - 1) : Id_cmp(ids[i], ids[i + 1]) # "Greater"

InitCompositeTest ==
  /\ max = COMPOSITE_MAX_VALUE
  /\ debug = TRUE
  /\ left = CompositeId_new(0)
  /\ right = CompositeId_new(max)
  /\ result = [st |-> "none"]
  /\ pc = "start"
  /\ inserts = 0

CompositeNeighbours ==
  IF pc = "start" THEN {<<left, right>>}
  ELSE {<<left, result.entries>>, <<result.entries, right>>}

test_composite_id_generation ==
  /\ pc \in {"start", "returned"}
  /\ inserts < MaxInserts
  /\ \E p \in CompositeNeighbours :
       LET middle == CompositeId_between_with_max(p[1], p[2], max, debug)
       IN /\ left' = p[1]
          /\ right' = p[2]
          /\ result' = middle
          /\ pc' = IF middle.st = "Ok" THEN "returned" ELSE "failed"
  /\ inserts' = inserts + 1
  /\ UNCHANGED <<max, debug>>

SpecCompositeTest == InitCompositeTest /\ [][test_composite_id_generation]_vars

InitPrimitiveTest ==
  /\ max \in PrimitiveMaxValues
  /\ debug = TRUE
  /\ left = Id_new(0)
  /\ right = Id_new(max)
  /\ result = [st |-> "none"]
  /\ pc = "start"
  /\ inserts = 0

PrimitiveNeighbours ==
  IF pc = "start" THEN {<<left, right>>}
  ELSE {<<left, result.val>>, <<result.val, right>>}

\* unwrap() panics on Err: the test fails.
test_primitive_id_generation ==
  /\ pc \in {"start", "returned"}
  /\ inserts < MaxInserts
  /\ \E p \in PrimitiveNeighbours :
       LET middle == Id_between_with_max(p[1], p[2], max, debug)
       IN /\ left' = p[1]
          /\ right' = p[2]
          /\ result' = middle
          /\ pc' = IF middle.st = "Ok" THEN "returned" ELSE "failed"
  /\ inserts' = inserts + 1
  /\ UNCHANGED <<max, debug>>

SpecPrimitiveTest == InitPrimitiveTest /\ [][test_primitive_id_generation]_vars

C6_UnwrapOkAndSorted ==
  pc \in {"returned", "failed"} =>
    /\ result.st = "Ok"
    /\ IsSortedPrimitive(<<left, result.val, right>>)

====
